---- MODULE Spec2Model ----
(***************************************************************************)
(* Model of the size-based rotating log writer of logrotate.go: the        *)
(* constructor NewLogrotate (int64 arithmetic), and the Write / Close      *)
(* state machine over a small file system (directory entries, inodes,      *)
(* open file objects), a wall clock with second resolution, and the        *)
(* instance mutex.                                                         *)
(***************************************************************************)
EXTENDS Integers, Sequences, FiniteSets, TLC

VARIABLES
    ctorArg,    \* the size argument handed to NewLogrotate (an int64)
    MaxSize,    \* Logrotate.MaxSize (an int64), Unset before construction
    file,       \* Logrotate.file: 0 is nil, otherwise an index into fds
    size,       \* Logrotate.size
    mu,         \* Logrotate.mu: 0 when free, otherwise the thread holding it
    pc,         \* per thread: the position inside Write / Close
    plen,       \* per thread: len(p) of the Write in progress
    cid,        \* per thread: the id of the call in progress (0: none yet)
    wrote,      \* per thread: bytes of p that l.file.Write has put on disk
    ret,        \* per thread: the (n, err) the call returns
    obs,        \* per thread: what the call has seen and done so far
    dirExists,  \* whether filepath.Dir(Filename) exists
    disk,       \* directory entries: name -> inode (0: no such entry)
    inodes,     \* inode -> content, a sequence of [call, n] byte runs
    fds,        \* the os.File objects ever opened: [ino, open, closes, bytes]
    now,        \* the second time.Now() last answered
    fails,      \* I/O failures injected so far
    started,    \* public calls started so far
    log         \* call id -> [op, len, n, err], in lock-acquisition order

vars == <<ctorArg, MaxSize, file, size, mu, pc, plen, cid, wrote, ret, obs,
          dirExists, disk, inodes, fds, now, fails, started, log>>

(***************************************************************************)
(* Bounds of the model.                                                    *)
(***************************************************************************)
NumThreads == 2
MaxCalls == 3
MaxClock == 1
MaxFails == 1

Threads == 1..NumThreads

(***************************************************************************)
(* int64: two's complement, as I64Limbs little-endian limbs of LimbBase.   *)
(***************************************************************************)
I64Limbs == 8
LimbBase == 256

LimbIdx == 1..I64Limbs

RECURSIVE NatLimbs(_, _)
NatLimbs(n, k) ==
    IF k = 0 THEN <<>> ELSE <<n % LimbBase>> \o NatLimbs(n \div LimbBase, k - 1)

\* The int64 of a (small) integer.
ToI64(n) ==
    IF n >= 0 THEN NatLimbs(n, I64Limbs)
    ELSE LET m == NatLimbs(-n - 1, I64Limbs)
         IN [i \in LimbIdx |-> LimbBase - 1 - m[i]]

I64Neg(a) == a[I64Limbs] >= LimbBase \div 2

RECURSIVE LimbsLess(_, _, _)
LimbsLess(a, b, i) ==
    IF i = 0 THEN FALSE
    ELSE IF a[i] # b[i] THEN a[i] < b[i]
    ELSE LimbsLess(a, b, i - 1)

\* a < b on int64 (signed).
I64Less(a, b) ==
    IF I64Neg(a) # I64Neg(b) THEN I64Neg(a) ELSE LimbsLess(a, b, I64Limbs)

RECURSIVE Conv(_, _, _, _)
Conv(a, b, k, i) ==
    IF i > k THEN 0 ELSE a[i] * b[k + 1 - i] + Conv(a, b, k, i + 1)

\* Schoolbook multiplication, limbs k..w of the product.
RECURSIVE MulFrom(_, _, _, _, _)
MulFrom(a, b, k, carry, w) ==
    IF k > w THEN <<>>
    ELSE LET s == Conv(a, b, k, 1) + carry
         IN <<s % LimbBase>> \o MulFrom(a, b, k + 1, s \div LimbBase, w)

\* a * b on int64: the product modulo 2^64 (Go wraps on overflow).
I64Mul(a, b) == MulFrom(a, b, 1, 0, I64Limbs)

RECURSIVE LimbsNat(_, _)
LimbsNat(a, i) ==
    IF i > Len(a) THEN 0 ELSE a[i] + LimbBase * LimbsNat(a, i + 1)

\* The integer of an int64 that fits in 31 bits.
I64ToInt(a) ==
    IF I64Neg(a)
    THEN -1 - LimbsNat([i \in 1..4 |-> LimbBase - 1 - a[i]], 1)
    ELSE LimbsNat(SubSeq(a, 1, 4), 1)

(***************************************************************************)
(* The package constants and the constructor.                              *)
(***************************************************************************)
defaultSize == 1
megabyte == 1048576

\* NewLogrotate(filename, size).MaxSize
NewLogrotate(sz) ==
    I64Mul(IF I64Less(sz, ToI64(defaultSize)) THEN ToI64(defaultSize) ELSE sz,
           ToI64(megabyte))

Unset == <<>>

(***************************************************************************)
(* Inputs of the model: constructor arguments and payload lengths.  The    *)
(* two shorter payloads add up to exactly one megabyte.                    *)
(***************************************************************************)
CtorSizes == {defaultSize}
LenLong == 600 * 1024
LenShort == megabyte - LenLong
PayloadLens == {0, LenShort, LenLong, megabyte, megabyte + 1}

\* l.MaxSize as an integer (the instances of the state machine fit).
MaxBytes == I64ToInt(MaxSize)

(***************************************************************************)
(* The file system.                                                        *)
(***************************************************************************)
Filename == <<"log">>

\* l.backupName(): Filename + "." + the local time sec, to the second.
backupName(sec) == <<"log", sec>>

\* time.Now(): the clock never goes back; seconds may have passed since
\* it was last read.
TimeNow == now..MaxClock

BackupNames == {backupName(s) : s \in 0..MaxClock}
Names == {Filename} \cup BackupNames

NoEntries == [nm \in Names |-> 0]

\* A run of n bytes of call c; call 0 is content from before this writer.
Run(c, n) == [call |-> c, n |-> n]

\* Appending n bytes of call c to a content.
AppendRun(content, c, n) ==
    IF n = 0 THEN content
    ELSE IF content # <<>> /\ content[Len(content)].call = c
         THEN [content EXCEPT ![Len(content)].n = @ + n]
         ELSE Append(content, Run(c, n))

RECURSIVE ContentLen(_)
ContentLen(content) ==
    IF content = <<>> THEN 0 ELSE Head(content).n + ContentLen(Tail(content))

\* The file systems the writer may start on.
InitialDisks ==
    { [dir |-> FALSE, disk |-> NoEntries, inodes |-> <<>>],
      [dir |-> TRUE, disk |-> NoEntries, inodes |-> <<>>],
      [dir |-> TRUE, disk |-> [NoEntries EXCEPT ![Filename] = 1],
       inodes |-> << <<Run(0, LenLong)>> >>] }

(***************************************************************************)
(* Per-thread bookkeeping.                                                 *)
(***************************************************************************)
NoRet == [n |-> 0, err |-> "none"]

NoObs == [open0 |-> FALSE, chk |-> -1, oldIno |-> 0, rot |-> <<>>,
          bak |-> <<>>, statErr |-> FALSE]

Set(f, t, v) == [f EXCEPT ![t] = v]

CanFail == fails < MaxFails

fsVars == <<dirExists, disk, inodes, fds>>
ctorVars == <<ctorArg, MaxSize>>

Init ==
    /\ ctorArg \in {ToI64(s) : s \in CtorSizes}
    /\ MaxSize = NewLogrotate(ctorArg)
    /\ file = 0
    /\ size = 0
    /\ mu = 0
    /\ pc = [t \in Threads |-> "idle"]
    /\ plen = [t \in Threads |-> 0]
    /\ cid = [t \in Threads |-> 0]
    /\ wrote = [t \in Threads |-> 0]
    /\ ret = [t \in Threads |-> NoRet]
    /\ obs = [t \in Threads |-> NoObs]
    /\ \E d \in InitialDisks :
          /\ dirExists = d.dir
          /\ disk = d.disk
          /\ inodes = d.inodes
    /\ fds = <<>>
    /\ now = 0
    /\ fails = 0
    /\ started = 0
    /\ log = <<>>

(***************************************************************************)
(* Callers, the mutex and the clock.                                       *)
(***************************************************************************)
\* A caller enters Write(p).  Write first looks at p once it holds the
\* mutex (WLen), which is where the model draws the payload.
CallWrite(t) ==
    /\ pc[t] = "idle"
    /\ started < MaxCalls
    /\ pc' = Set(pc, t, "w_lock")
    /\ started' = started + 1
    /\ UNCHANGED <<ctorVars, file, size, mu, plen, cid, wrote, ret, obs, fsVars,
                   now, fails, log>>

\* A caller enters Close().
CallClose(t) ==
    /\ pc[t] = "idle"
    /\ started < MaxCalls
    /\ pc' = Set(pc, t, "c_lock")
    /\ started' = started + 1
    /\ UNCHANGED <<ctorVars, file, size, mu, plen, cid, wrote, ret, obs, fsVars,
                   now, fails, log>>

\* A mutex that lets every caller in.
MutexIgnored == TRUE

\* sync.Mutex: Lock returns only when no one holds the mutex.
MutexFree == mu = 0

\* l.mu.Lock()
Lock(t) ==
    /\ pc[t] \in {"w_lock", "c_lock"}
    /\ MutexFree
    /\ mu' = t
    /\ cid' = Set(cid, t, Len(log) + 1)
    /\ log' = Append(log, [op |-> IF pc[t] = "w_lock" THEN "write" ELSE "close",
                           len |-> 0, n |-> 0, err |-> "pending"])
    /\ obs' = Set(obs, t, [obs[t] EXCEPT !.open0 = (file # 0)])
    /\ pc' = Set(pc, t, IF pc[t] = "w_lock" THEN "w_len" ELSE "c_close")
    /\ UNCHANGED <<ctorVars, file, size, plen, wrote, ret, fsVars, now, fails,
                   started>>

\* A return that leaves the mutex with the caller.
MutexHeld == mu

\* l.mu after Unlock: free.
MutexReleased == 0

\* defer l.mu.Unlock(), and the return to the caller (the log keeps what
\* the call returned).
Unlock(t) ==
    /\ pc[t] \in {"w_ret", "c_ret"}
    /\ mu' = MutexReleased
    /\ pc' = Set(pc, t, "idle")
    /\ plen' = Set(plen, t, 0)
    /\ cid' = Set(cid, t, 0)
    /\ wrote' = Set(wrote, t, 0)
    /\ ret' = Set(ret, t, NoRet)
    /\ obs' = Set(obs, t, NoObs)
    /\ UNCHANGED <<ctorVars, file, size, fsVars, now, fails, started, log>>

\* The call of thread t returns (n, err) once it unlocks; next position p.
Return(t, n, err, p) ==
    /\ ret' = Set(ret, t, [n |-> n, err |-> err])
    /\ log' = [log EXCEPT ![cid[t]].err = err]
    /\ pc' = Set(pc, t, p)

(***************************************************************************)
(* closeFile and createFile.                                               *)
(***************************************************************************)
\* closeFile without its l.file = nil.
FileKept == file

\* l.file after closeFile: nil, whatever Close returned.
FileAfterClose == 0

\* closeFile() returning err: "nil", or the error of l.file.Close().  The
\* descriptor is released by Close even when Close reports an error.
closeFile(err) ==
    IF file = 0
    THEN /\ err = "nil"
         /\ UNCHANGED <<file, fds, fails>>
    ELSE /\ err \in (IF fds[file].open THEN {"nil"} ELSE {"closed"})
                     \cup (IF CanFail /\ fds[file].open THEN {"close"} ELSE {})
         /\ fds' = [fds EXCEPT ![file].open = FALSE, ![file].closes = @ + 1]
         /\ file' = FileAfterClose
         /\ fails' = fails + (IF err = "close" THEN 1 ELSE 0)

\* os.Stat(filepath.Dir(l.Filename)): the directory is there, is not there,
\* or cannot be examined (an error that is not "does not exist").
StatResults ==
    (IF dirExists THEN {"ok"} ELSE {"notexist"})
        \cup (IF CanFail THEN {"other"} ELSE {})

\* os.IsNotExist(err) decides whether createFile calls os.Mkdir.
MkdirNeeded(st) == st = "notexist"

\* createFile without its l.size = 0.
SizeKept == size

\* l.size after a successful os.OpenFile.
SizeAfterOpen == 0

\* createFile() returning err: "nil", "mkdir" or "open"; st is what os.Stat
\* answered, mkFail and opFail whether os.Mkdir and os.OpenFile fail for a
\* reason of their own.  Opening a file in a directory that does not exist
\* fails in any case.
createFile(err, st, mkFail, opFail) ==
    LET mkErr == MkdirNeeded(st) /\ mkFail
        dirAfter == dirExists \/ (MkdirNeeded(st) /\ ~mkFail)
        opErr == ~mkErr /\ (opFail \/ ~dirAfter)
        injected == (IF st = "other" THEN 1 ELSE 0)
                    + (IF mkErr THEN 1 ELSE 0)
                    + (IF ~mkErr /\ opFail THEN 1 ELSE 0)
        ino == IF disk[Filename] # 0 THEN disk[Filename] ELSE Len(inodes) + 1
    IN  /\ st \in StatResults
        /\ mkFail => MkdirNeeded(st)
        /\ opFail => (~mkErr /\ dirAfter)
        /\ fails + injected <= MaxFails
        /\ fails' = fails + injected
        /\ err = (IF mkErr THEN "mkdir" ELSE IF opErr THEN "open" ELSE "nil")
        /\ dirExists' = (IF mkErr THEN dirExists ELSE dirAfter)
        /\ IF err = "nil"
           THEN /\ disk' = [disk EXCEPT ![Filename] = ino]
                /\ inodes' = (IF disk[Filename] # 0 THEN inodes
                              ELSE Append(inodes, <<>>))
                /\ fds' = Append(fds, [ino |-> ino, open |-> TRUE,
                                       closes |-> 0, bytes |-> 0])
                /\ file' = Len(fds) + 1
                /\ size' = SizeAfterOpen
           ELSE UNCHANGED <<disk, inodes, fds, file, size>>

CreateErrs == {"nil", "mkdir", "open"}

(***************************************************************************)
(* Write.                                                                  *)
(***************************************************************************)
\* The length check against twice the limit.
TooLongAtTwice(writeLen) == writeLen > 2 * MaxBytes

\* writeLen > l.MaxSize
TooLong(writeLen) == writeLen > MaxBytes

\* writeLen := int64(len(p)), for a payload of any of the lengths.
WLen(t) ==
    /\ pc[t] = "w_len"
    /\ \E n \in PayloadLens :
          /\ plen' = Set(plen, t, n)
          /\ log' = [log EXCEPT ![cid[t]].len = n]
    /\ pc' = Set(pc, t, "w_max")
    /\ UNCHANGED <<ctorVars, file, size, mu, cid, wrote, ret, obs, fsVars, now,
                   fails, started>>

\* if writeLen > l.MaxSize { return 0, errors.New(...) }
WMax(t) ==
    /\ pc[t] = "w_max"
    /\ IF TooLong(plen[t])
       THEN Return(t, 0, "toolong", "w_ret")
       ELSE /\ pc' = Set(pc, t, "w_file")
            /\ UNCHANGED <<ret, log>>
    /\ UNCHANGED <<ctorVars, file, size, mu, plen, cid, wrote, obs, fsVars,
                   now, fails, started>>

\* Creating the file whether or not one is open.
NoFileAlways == TRUE

\* l.file == nil
NoFile == file = 0

\* A Write that goes on to the rotation check when createFile failed.
WFileGoOn(t) ==
    /\ pc[t] = "w_file"
    /\ IF NoFile
       THEN \E err \in CreateErrs, st \in {"ok", "notexist", "other"},
               mkFail \in BOOLEAN, opFail \in BOOLEAN :
               /\ createFile(err, st, mkFail, opFail)
               /\ obs' = Set(obs, t, [obs[t] EXCEPT
                                        !.statErr = @ \/ (st = "other")])
               /\ IF err = "nil"
                  THEN /\ pc' = Set(pc, t, "w_rot")
                       /\ UNCHANGED <<ret, log>>
                  ELSE Return(t, 0, err, "w_rot")
       ELSE /\ pc' = Set(pc, t, "w_rot")
            /\ UNCHANGED <<file, size, ret, obs, fsVars, fails, log>>
    /\ UNCHANGED <<ctorVars, mu, plen, cid, wrote, now, started>>

\* if l.file == nil { err := l.createFile(); if err != nil { return 0, err } }
WFile(t) ==
    /\ pc[t] = "w_file"
    /\ IF NoFile
       THEN \E err \in CreateErrs, st \in {"ok", "notexist", "other"},
               mkFail \in BOOLEAN, opFail \in BOOLEAN :
               /\ createFile(err, st, mkFail, opFail)
               /\ obs' = Set(obs, t, [obs[t] EXCEPT
                                        !.statErr = @ \/ (st = "other")])
               /\ IF err = "nil"
                  THEN /\ pc' = Set(pc, t, "w_rot")
                       /\ UNCHANGED <<ret, log>>
                  ELSE Return(t, 0, err, "w_ret")
       ELSE /\ pc' = Set(pc, t, "w_rot")
            /\ UNCHANGED <<file, size, ret, obs, fsVars, fails, log>>
    /\ UNCHANGED <<ctorVars, mu, plen, cid, wrote, now, started>>

\* The rotation check with >= for >.
NeedRotateAtLimit(writeLen) == writeLen + size >= MaxBytes

\* No rotation check at all.
NeedRotateNever(writeLen) == FALSE

\* Rotating before every write.
NeedRotateAlways(writeLen) == TRUE

\* writeLen+l.size > l.MaxSize
NeedRotate(writeLen) == writeLen + size > MaxBytes

\* The check that fills the current file up to MaxSize before it rotates
\* and leaves the rest of the payload for the new file.
WRotFill(t) ==
    /\ pc[t] = "w_rot"
    /\ obs' = Set(obs, t, [obs[t] EXCEPT !.chk = size,
                                         !.oldIno = disk[Filename]])
    /\ IF NeedRotate(plen[t]) /\ file # 0
       THEN /\ inodes' = [inodes EXCEPT ![fds[file].ino] =
                              AppendRun(@, cid[t], MaxBytes - size)]
            /\ wrote' = Set(wrote, t, MaxBytes - size)
            /\ log' = [log EXCEPT ![cid[t]].n = MaxBytes - size]
            /\ pc' = Set(pc, t, "r_close")
       ELSE /\ pc' = Set(pc, t, "w_write")
            /\ UNCHANGED <<inodes, wrote, log>>
    /\ UNCHANGED <<ctorVars, file, size, mu, plen, cid, ret, dirExists, disk,
                   fds, now, fails, started>>

\* if writeLen+l.size > l.MaxSize { err := l.rotateFile(); ... }
WRot(t) ==
    /\ pc[t] = "w_rot"
    /\ obs' = Set(obs, t, [obs[t] EXCEPT !.chk = size,
                                         !.oldIno = disk[Filename]])
    /\ pc' = Set(pc, t, IF NeedRotate(plen[t]) THEN "r_close" ELSE "w_write")
    /\ UNCHANGED <<ctorVars, file, size, mu, plen, cid, wrote, ret, fsVars,
                   now, fails, started, log>>

\* A rotation that goes on to the rename when closeFile failed.
RCloseGoOn(t) ==
    /\ pc[t] = "r_close"
    /\ \E err \in {"nil", "close", "closed"} :
          /\ closeFile(err)
          /\ IF err = "nil"
             THEN /\ pc' = Set(pc, t, "r_rename")
                  /\ obs' = Set(obs, t, [obs[t] EXCEPT
                                           !.rot = Append(@, "close")])
                  /\ UNCHANGED <<ret, log>>
             ELSE /\ Return(t, 0, err, "r_rename")
                  /\ UNCHANGED obs
    /\ UNCHANGED <<ctorVars, size, mu, plen, cid, wrote, dirExists, disk,
                   inodes, now, started>>

\* rotateFile: err := l.closeFile(); if err != nil { return err }
RClose(t) ==
    /\ pc[t] = "r_close"
    /\ \E err \in {"nil", "close", "closed"} :
          /\ closeFile(err)
          /\ IF err = "nil"
             THEN /\ pc' = Set(pc, t, "r_rename")
                  /\ obs' = Set(obs, t, [obs[t] EXCEPT
                                           !.rot = Append(@, "close")])
                  /\ UNCHANGED <<ret, log>>
             ELSE /\ Return(t, 0, err, "w_ret")
                  /\ UNCHANGED obs
    /\ UNCHANGED <<ctorVars, size, mu, plen, cid, wrote, dirExists, disk,
                   inodes, now, started>>

\* A rename that leaves the entry at the path in place.
RenamedCopy(bak) == [disk EXCEPT ![bak] = disk[Filename]]

\* os.Rename(l.Filename, bak): the entry at the backup name, if there is
\* one, is replaced.
Renamed(bak) == [disk EXCEPT ![bak] = disk[Filename], ![Filename] = 0]

\* A rotation that goes on to createFile when the rename failed.
RRenameGoOn(t) ==
    /\ pc[t] = "r_rename"
    /\ \E err \in {"nil", "rename"}, sec \in TimeNow :
          /\ now' = sec
          /\ err = "rename" => (CanFail \/ disk[Filename] = 0)
          /\ err = "nil" => disk[Filename] # 0
          /\ fails' = fails + (IF err = "rename" /\ disk[Filename] # 0
                               THEN 1 ELSE 0)
          /\ IF err = "nil"
             THEN /\ disk' = Renamed(backupName(sec))
                  /\ pc' = Set(pc, t, "r_create")
                  /\ obs' = Set(obs, t, [obs[t] EXCEPT
                                           !.rot = Append(@, "rename"),
                                           !.bak = backupName(sec)])
                  /\ UNCHANGED <<ret, log>>
             ELSE /\ Return(t, 0, err, "r_create")
                  /\ UNCHANGED <<disk, obs>>
    /\ UNCHANGED <<ctorVars, file, size, mu, plen, cid, wrote, dirExists,
                   inodes, fds, started>>

\* rotateFile: err = os.Rename(...); if err != nil { return err }
RRename(t) ==
    /\ pc[t] = "r_rename"
    /\ \E err \in {"nil", "rename"}, sec \in TimeNow :
          /\ now' = sec
          /\ err = "rename" => (CanFail \/ disk[Filename] = 0)
          /\ err = "nil" => disk[Filename] # 0
          /\ fails' = fails + (IF err = "rename" /\ disk[Filename] # 0
                               THEN 1 ELSE 0)
          /\ IF err = "nil"
             THEN /\ disk' = Renamed(backupName(sec))
                  /\ pc' = Set(pc, t, "r_create")
                  /\ obs' = Set(obs, t, [obs[t] EXCEPT
                                           !.rot = Append(@, "rename"),
                                           !.bak = backupName(sec)])
                  /\ UNCHANGED <<ret, log>>
             ELSE /\ Return(t, 0, err, "w_ret")
                  /\ UNCHANGED <<disk, obs>>
    /\ UNCHANGED <<ctorVars, file, size, mu, plen, cid, wrote, dirExists,
                   inodes, fds, started>>

\* rotateFile: return l.createFile()
RCreate(t) ==
    /\ pc[t] = "r_create"
    /\ \E err \in CreateErrs, st \in {"ok", "notexist", "other"},
          mkFail \in BOOLEAN, opFail \in BOOLEAN :
          /\ createFile(err, st, mkFail, opFail)
          /\ obs' = Set(obs, t, [obs[t] EXCEPT
                                   !.rot = IF err = "nil"
                                           THEN Append(@, "create") ELSE @,
                                   !.statErr = @ \/ (st = "other")])
          /\ IF err = "nil"
             THEN /\ pc' = Set(pc, t, "w_write")
                  /\ UNCHANGED <<ret, log>>
             ELSE Return(t, 0, err, "w_ret")
    /\ UNCHANGED <<ctorVars, mu, plen, cid, wrote, now, started>>

\* The sizes of the first write(2) of l.file.Write(p) with rem bytes to go:
\* all of them, or a part of them (the loop of os.File.Write goes on).
FirstChunks(rem) == IF rem >= 2 THEN {rem, rem \div 2} ELSE {rem}

\* n, err = l.file.Write(p): one write(2) of the loop.  The file is opened
\* with O_APPEND, so each write(2) lands at the end of the file's inode.
WriteSys(t) ==
    /\ pc[t] = "w_write"
    /\ IF file = 0 \/ (file # 0 /\ ~fds[file].open)
       THEN /\ Return(t, wrote[t], "closed", "w_acct")
            /\ UNCHANGED <<inodes, fds, wrote>>
       ELSE \E k \in (IF wrote[t] = 0 THEN FirstChunks(plen[t])
                      ELSE {plen[t] - wrote[t]}) :
               /\ inodes' = [inodes EXCEPT
                               ![fds[file].ino] = AppendRun(@, cid[t], k)]
               /\ fds' = [fds EXCEPT ![file].bytes = @ + k]
               /\ wrote' = Set(wrote, t, wrote[t] + k)
               /\ IF wrote[t] + k = plen[t]
                  THEN /\ ret' = Set(ret, t, [n |-> plen[t], err |-> "nil"])
                       /\ log' = [log EXCEPT ![cid[t]].n = @ + k,
                                             ![cid[t]].err = "nil"]
                       /\ pc' = Set(pc, t, "w_acct")
                  ELSE /\ log' = [log EXCEPT ![cid[t]].n = @ + k]
                       /\ UNCHANGED <<ret, pc>>
    /\ UNCHANGED <<ctorVars, file, size, mu, plen, cid, obs, dirExists, disk,
                   now, fails, started>>

\* n, err = l.file.Write(p): a write(2) fails, after wrote[t] < len(p) bytes.
WriteFail(t) ==
    /\ pc[t] = "w_write"
    /\ CanFail
    /\ wrote[t] < plen[t]
    /\ fails' = fails + 1
    /\ Return(t, wrote[t], "write", "w_acct")
    /\ UNCHANGED <<ctorVars, file, size, mu, plen, cid, wrote, obs, fsVars,
                   now, started>>

\* Accounting for the whole payload, whatever was written.
AccountedLen(t) == plen[t]

\* The n that l.file.Write(p) returned.
Accounted(t) == ret[t].n

\* l.size += int64(n); return n, err
WAcct(t) ==
    /\ pc[t] = "w_acct"
    /\ size' = size + Accounted(t)
    /\ pc' = Set(pc, t, "w_ret")
    /\ UNCHANGED <<ctorVars, file, mu, plen, cid, wrote, ret, obs, fsVars,
                   now, fails, started, log>>

(***************************************************************************)
(* Close.                                                                  *)
(***************************************************************************)
\* return l.closeFile()
CClose(t) ==
    /\ pc[t] = "c_close"
    /\ \E err \in {"nil", "close", "closed"} :
          /\ closeFile(err)
          /\ Return(t, 0, err, "c_ret")
    /\ UNCHANGED <<ctorVars, size, mu, plen, cid, wrote, obs, dirExists, disk,
                   inodes, now, started>>

(***************************************************************************)
(* The writer: any number of callers of Write and Close on one instance.   *)
(***************************************************************************)
Next ==
    \/ \E t \in Threads : CallWrite(t)
    \/ \E t \in Threads : CallClose(t)
    \/ \E t \in Threads : Lock(t)
    \/ \E t \in Threads : WLen(t)
    \/ \E t \in Threads : WMax(t)
    \/ \E t \in Threads : WFile(t)
    \/ \E t \in Threads : WRot(t)
    \/ \E t \in Threads : RClose(t)
    \/ \E t \in Threads : RRename(t)
    \/ \E t \in Threads : RCreate(t)
    \/ \E t \in Threads : WriteSys(t)
    \/ \E t \in Threads : WriteFail(t)
    \/ \E t \in Threads : WAcct(t)
    \/ \E t \in Threads : CClose(t)
    \/ \E t \in Threads : Unlock(t)

Spec == Init /\ [][Next]_vars

\* A step of the call of t once it holds the mutex.
Step(t) ==
    \/ WLen(t) \/ WMax(t) \/ WFile(t) \/ WRot(t)
    \/ RClose(t) \/ RRename(t) \/ RCreate(t)
    \/ WriteSys(t) \/ WriteFail(t) \/ WAcct(t)
    \/ CClose(t) \/ Unlock(t)

\* The writer with its scheduling: a goroutine that can run does run, the
\* file system calls return, and sync.Mutex hands the mutex to a goroutine
\* that keeps waiting for it (its starvation mode).
SpecFair ==
    /\ Init
    /\ [][Next]_vars
    /\ \A t \in Threads : WF_vars(Step(t)) /\ SF_vars(Lock(t))

(***************************************************************************)
(* The constructor on its own: NewLogrotate over the int64 range.          *)
(***************************************************************************)
MaxSmallSize == 30

\* 2^e and 2^e - 1 as int64, for 0 <= e < 64.
I64Pow2(e) ==
    [i \in LimbIdx |-> IF i = (e \div 8) + 1 THEN 2 ^ (e % 8) ELSE 0]

I64LowBits(e) ==
    [i \in LimbIdx |-> IF i < (e \div 8) + 1 THEN LimbBase - 1
                       ELSE IF i = (e \div 8) + 1 THEN 2 ^ (e % 8) - 1
                       ELSE 0]

BigExps == {20, 31, 42, 43, 44, 62, 63}

CtorInputs ==
    {ToI64(n) : n \in -4..MaxSmallSize}
    \cup {I64Mul(ToI64(m), I64Pow2(e)) : m \in {-1, 1, 3}, e \in BigExps}
    \cup {I64LowBits(e) : e \in BigExps}

InitNew ==
    /\ ctorArg \in CtorInputs
    /\ MaxSize = Unset
    /\ file = 0
    /\ size = 0
    /\ mu = 0
    /\ pc = [t \in Threads |-> "idle"]
    /\ plen = [t \in Threads |-> 0]
    /\ cid = [t \in Threads |-> 0]
    /\ wrote = [t \in Threads |-> 0]
    /\ ret = [t \in Threads |-> NoRet]
    /\ obs = [t \in Threads |-> NoObs]
    /\ dirExists = TRUE
    /\ disk = NoEntries
    /\ inodes = <<>>
    /\ fds = <<>>
    /\ now = 0
    /\ fails = 0
    /\ started = 0
    /\ log = <<>>

\* return &Logrotate{Filename: filename, MaxSize: size * megabyte}
Construct ==
    /\ MaxSize = Unset
    /\ MaxSize' = NewLogrotate(ctorArg)
    /\ UNCHANGED <<ctorArg, file, size, mu, pc, plen, cid, wrote, ret, obs,
                   fsVars, now, fails, started, log>>

NextNew == Construct

SpecNew == InitNew /\ [][NextNew]_vars

\* The product of two int64 that are not negative, in twice the width.
WideMul(a, b) ==
    LET z == [i \in LimbIdx |-> 0]
    IN MulFrom(a \o z, b \o z, 1, 0, 2 * I64Limbs)

\* C7: for every megabyte value handed to NewLogrotate, MaxSize is at least
\* one megabyte (1048576): a value below 1 gives exactly one megabyte, any
\* other value gives value * 1048576 (the product, not the product modulo
\* 2^64).
C7_ThresholdFloor ==
    MaxSize # Unset =>
        /\ ~I64Less(MaxSize, ToI64(megabyte))
        /\ I64Less(ctorArg, ToI64(1)) => MaxSize = ToI64(megabyte)
        /\ ~I64Less(ctorArg, ToI64(1)) =>
              MaxSize \o [i \in LimbIdx |-> 0]
                  = WideMul(ctorArg, ToI64(megabyte))

(***************************************************************************)
(* Positions of a call.                                                    *)
(***************************************************************************)
\* Inside Write, holding the mutex, before the deferred Unlock has run.
WriteBody == {"w_len", "w_max", "w_file", "w_rot", "r_close", "r_rename", "r_create",
              "w_write", "w_acct"}

\* Between l.mu.Lock() and l.mu.Unlock().
Critical == WriteBody \cup {"w_ret", "c_close", "c_ret"}

Okay(t) == ret[t].err = "nil"

\* C1: a Write whose payload is longer than MaxSize returns 0 bytes and an
\* error and has no side effects: while the call runs, the handle, the
\* tracked size, the directory, the directory entries, the files' contents
\* and the open files stay as they are, it goes straight to its return, and
\* no step of a rotation is taken.
C1_OversizedRejected ==
    [][\A t \in Threads :
          (pc[t] \in WriteBody \ {"w_len"} /\ plen[t] > MaxBytes) =>
              /\ UNCHANGED <<file, size, fsVars>>
              /\ pc'[t] \in {pc[t], "w_ret"}
              /\ pc'[t] = "w_ret" =>
                    /\ ret'[t] = [n |-> 0, err |-> "toolong"]
                    /\ obs'[t].rot = <<>>
                    /\ wrote'[t] = 0]_vars

\* An oversized Write has been rejected on a writer whose file is open and
\* holds bytes.
C1_Witness ==
    \E t \in Threads :
        /\ pc[t] = "w_ret"
        /\ plen[t] > MaxBytes
        /\ ret[t].err = "toolong"
        /\ file # 0
        /\ size > 0

(***************************************************************************)
(* What is on disk.                                                        *)
(***************************************************************************)
Inos == 1..Len(inodes)

\* The inodes that hold bytes of call c.
Holders(c) == {i \in Inos : \E k \in 1..Len(inodes[i]) : inodes[i][k].call = c}

\* The inodes a directory entry names: the active file and the backups.
Linked == {i \in Inos : \E nm \in Names : disk[nm] = i}

RotationDone(t) == obs[t].rot = <<"close", "rename", "create">>

\* C2: no write is split across two files: the bytes of one Write call that
\* reached the disk are in exactly one file, which is the file at the path
\* when the call checked for rotation if the call did not rotate, and
\* otherwise the fresh file its rotation opened, which then holds nothing
\* but these bytes.
C2_NoSplit ==
    /\ \A c \in 1..Len(log) : Cardinality(Holders(c)) <= 1
    /\ \A t \in Threads :
          (pc[t] \in WriteBody \cup {"w_ret"} /\ wrote[t] > 0) =>
              /\ \E i \in Inos : Holders(cid[t]) = {i}
              /\ obs[t].rot = <<>> => Holders(cid[t]) = {obs[t].oldIno}
              /\ obs[t].rot # <<>> =>
                    /\ RotationDone(t)
                    /\ obs[t].oldIno \notin Holders(cid[t])
                    /\ \A i \in Holders(cid[t]) :
                          /\ disk[Filename] = i
                          /\ inodes[i] = <<Run(cid[t], wrote[t])>>

\* A Write has rotated away a file that holds bytes and has put its whole
\* payload into the new file.
C2_Witness ==
    \E t \in Threads :
        /\ pc[t] = "w_ret"
        /\ RotationDone(t)
        /\ Okay(t)
        /\ wrote[t] = plen[t]
        /\ plen[t] > 0
        /\ obs[t].oldIno # 0
        /\ inodes[obs[t].oldIno] # <<>>

RECURSIVE Written(_)
Written(content) ==
    IF content = <<>> THEN <<>>
    ELSE IF Head(content).call = 0 THEN Written(Tail(content))
    ELSE <<Head(content)>> \o Written(Tail(content))

\* The bytes this writer wrote that are on disk: the backups in the order
\* of their creation, then the active file (inodes are numbered as the
\* files are created).
RECURSIVE DiskStream(_)
DiskStream(i) ==
    IF i > Len(inodes) THEN <<>>
    ELSE (IF i \in Linked THEN Written(inodes[i]) ELSE <<>>)
             \o DiskStream(i + 1)

\* The bytes written, call by call in the order the calls took the mutex.
RECURSIVE CallStream(_)
CallStream(c) ==
    IF c > Len(log) THEN <<>>
    ELSE (IF log[c].n > 0 THEN <<Run(c, log[c].n)>> ELSE <<>>)
             \o CallStream(c + 1)

\* C3: with concurrent writers and any timing of the rotations, several of
\* them in one clock second included, the backups in creation order
\* followed by the active file hold the bytes written, in the order the
\* calls took the mutex: no byte is dropped or duplicated and no write is
\* in two pieces.
C3_StreamPreserved == DiskStream(1) = CallStream(1)

(***************************************************************************)
(* Rotation.                                                               *)
(***************************************************************************)
\* The call of t found an open writer and size + len(p) > MaxSize at its
\* rotation check, with len(p) <= MaxSize.
Triggered(t) ==
    /\ obs[t].open0
    /\ obs[t].chk >= 0
    /\ plen[t] + obs[t].chk > MaxBytes
    /\ plen[t] <= MaxBytes

\* C4: a Write on an open writer with size + len(p) > MaxSize and
\* len(p) <= MaxSize that meets no I/O failure rotates exactly once, in this
\* order: the old handle is closed (the file still at the path), the file is
\* renamed from the path to the backup name of the current second (nothing
\* at the path), a new empty file is opened at the path; only then is the
\* payload written, and no step of a rotation is taken twice in the call.
C4_OneRotation ==
    \A t \in Threads :
        (pc[t] \in WriteBody \cup {"w_ret"} /\ Triggered(t)) =>
            /\ pc[t] \in {"w_write", "w_acct"} => RotationDone(t)
            /\ (pc[t] = "w_ret" /\ Okay(t)) =>
                  (RotationDone(t) /\ wrote[t] = plen[t])
            /\ wrote[t] > 0 => RotationDone(t)
            /\ pc[t] = "r_close" => obs[t].rot = <<>>
            /\ pc[t] = "r_rename" =>
                  /\ obs[t].rot = <<"close">>
                  /\ file = 0
                  /\ \A k \in 1..Len(fds) : ~fds[k].open
                  /\ disk[Filename] = obs[t].oldIno
            /\ pc[t] = "r_create" =>
                  /\ obs[t].rot = <<"close", "rename">>
                  /\ file = 0
                  /\ disk[Filename] = 0
                  /\ obs[t].bak \in BackupNames
                  /\ obs[t].bak = backupName(now)
                  /\ disk[obs[t].bak] = obs[t].oldIno
            /\ (RotationDone(t) /\ pc[t] \in WriteBody) =>
                  /\ file # 0
                  /\ fds[file].open
                  /\ fds[file].ino = disk[Filename]
                  /\ disk[Filename] # obs[t].oldIno
                  /\ disk[obs[t].bak] = obs[t].oldIno
                  /\ inodes[disk[Filename]] =
                        (IF wrote[t] = 0 THEN <<>>
                         ELSE <<Run(cid[t], wrote[t])>>)

\* A Write on an open writer that had to rotate has returned without error.
C4_Witness ==
    \E t \in Threads :
        /\ pc[t] = "w_ret"
        /\ Triggered(t)
        /\ Okay(t)
        /\ RotationDone(t)
        /\ plen[t] > 0
        /\ disk[obs[t].bak] = obs[t].oldIno

\* C5: after a rotation the size counter is 0 until the triggering write is
\* accounted for, and once that write has succeeded the counter is exactly
\* the length of its payload, which is all the new file holds.
C5_SizeAfterRotation ==
    \A t \in Threads :
        RotationDone(t) =>
            /\ pc[t] \in {"w_write", "w_acct"} => size = 0
            /\ (pc[t] = "w_ret" /\ Okay(t)) =>
                  /\ size = plen[t]
                  /\ ret[t].n = plen[t]
                  /\ ContentLen(inodes[disk[Filename]]) = size

\* The scenario of the specification: two payloads of 600 KiB under a
\* threshold of 1 MiB; the backup holds the first, the active file the
\* second, and the size counter is 600 KiB.
C5_Witness ==
    \E t \in Threads :
        /\ pc[t] = "w_ret"
        /\ RotationDone(t)
        /\ Okay(t)
        /\ cid[t] = 2
        /\ MaxBytes = megabyte
        /\ inodes[disk[obs[t].bak]] = <<Run(1, LenLong)>>
        /\ inodes[disk[Filename]] = <<Run(2, LenLong)>>
        /\ size = LenLong

RECURSIVE SumN(_)
SumN(c) == IF c > Len(log) THEN 0 ELSE log[c].n + SumN(c + 1)

RECURSIVE SumLen(_)
SumLen(c) == IF c > Len(log) THEN 0 ELSE log[c].len + SumLen(c + 1)

\* Every call so far was a Write that succeeded, none is under way, and
\* the payloads add up to at most MaxSize.
OnlySmallWrites ==
    /\ log # <<>>
    /\ \A c \in 1..Len(log) : log[c].op = "write" /\ log[c].err = "nil"
    /\ \A t \in Threads : pc[t] \notin WriteBody \cup {"c_close"}
    /\ SumLen(1) <= MaxBytes

\* C6: after any sequence of successful Writes whose lengths add up to at
\* most MaxSize, no rotation has occurred (no backup exists, the file was
\* opened once), the one file at the path holds all the bytes in call
\* order, and the tracked size is the sum of the bytes written.
C6_SingleFile ==
    OnlySmallWrites =>
        /\ \A nm \in BackupNames : disk[nm] = 0
        /\ Len(fds) = 1
        /\ file = 1
        /\ disk[Filename] # 0
        /\ Written(inodes[disk[Filename]]) = CallStream(1)
        /\ size = SumN(1)
        /\ size = SumLen(1)

\* Two Writes that fill the file to exactly MaxSize have succeeded.
C6_Witness ==
    /\ OnlySmallWrites
    /\ Len(log) >= 2
    /\ \A c \in 1..Len(log) : log[c].n > 0
    /\ size = MaxBytes

(***************************************************************************)
(* Close and the mutex.                                                    *)
(***************************************************************************)
\* C8: Close is idempotent: a Close that finds no open handle returns no
\* error and changes nothing; when a Close returns the handle is absent;
\* and no file object is ever closed twice.
C8_CloseIdempotent ==
    [][/\ \A t \in Threads :
             /\ (pc[t] = "c_close" /\ file = 0) =>
                   /\ UNCHANGED <<file, size, fsVars>>
                   /\ pc'[t] = "c_ret" => ret'[t] = [n |-> 0, err |-> "nil"]
             /\ pc'[t] = "c_ret" => file' = 0
       /\ \A k \in 1..Len(fds') : fds'[k].closes <= 1]_vars

\* A Close that closed the open file is followed by a second Close, which
\* has returned.
C8_Witness ==
    \E t \in Threads :
        /\ pc[t] = "c_ret"
        /\ cid[t] >= 2
        /\ log[cid[t] - 1].op = "close"
        /\ ~obs[t].open0
        /\ \E k \in 1..Len(fds) : fds[k].closes = 1
        /\ Okay(t)

\* Some caller is inside rotateFile with the handle closed and the file
\* not yet renamed or not yet reopened.
MidRotation(t) == pc[t] \in {"r_rename", "r_create"}

\* C9: Write and Close are atomic with respect to each other: at most one
\* caller is between Lock and Unlock, and it is the holder of the mutex; no
\* other caller is inside Write or Close while a rotation is half done; and
\* in no file are the bytes of one payload in two runs, with bytes of
\* another payload between them.
C9_Atomic ==
    /\ Cardinality({t \in Threads : pc[t] \in Critical}) <= 1
    /\ \A t \in Threads : pc[t] \in Critical => mu = t
    /\ \A t, u \in Threads :
          (MidRotation(t) /\ u # t) => pc[u] \notin Critical
    /\ \A i \in Inos : \A j, k \in 1..Len(inodes[i]) :
          (inodes[i][j].call = inodes[i][k].call) => j = k

\* One caller is half way through a rotation while another waits for the
\* mutex with a payload to write.
C9_Witness ==
    \E t, u \in Threads :
        /\ MidRotation(t)
        /\ pc[u] = "w_lock"

\* C10: when the check of the parent directory fails with an error other
\* than "does not exist", file creation is aborted and the error surfaced:
\* the Write returns 0 bytes and that error, no file is opened and the
\* handle stays absent.
C10_StatErrorSurfaced ==
    \A t \in Threads :
        (pc[t] \in WriteBody \cup {"w_ret"} /\ obs[t].statErr) =>
            /\ pc[t] = "w_ret"
            /\ ret[t] = [n |-> 0, err |-> "stat"]
            /\ file = 0

(***************************************************************************)
(* Failures of the underlying file operations.                             *)
(***************************************************************************)
\* C11: when closing the file fails, in Close or as the first step of a
\* rotation, the call returns the close error and the handle is absent; in
\* the rotation the call goes straight to its return: it returns 0 bytes,
\* writes nothing, takes no further step of the rotation and opens no file,
\* and the file is still at the path under its name, under no backup name.
C11_CloseErrorAborts ==
    \A t \in Threads :
        ret[t].err = "close" =>
            /\ pc[t] \in {"w_ret", "c_ret"}
            /\ ret[t].n = 0
            /\ file = 0
            /\ \A k \in 1..Len(fds) : ~fds[k].open
            /\ pc[t] = "w_ret" =>
                  /\ obs[t].rot = <<>>
                  /\ obs[t].bak = <<>>
                  /\ wrote[t] = 0
                  /\ Holders(cid[t]) = {}
                  /\ obs[t].oldIno # 0
                  /\ disk[Filename] = obs[t].oldIno
                  /\ \A nm \in BackupNames : disk[nm] # obs[t].oldIno

\* A Write that had to rotate has returned the error of the close.
C11_Witness ==
    \E t \in Threads :
        /\ pc[t] = "w_ret"
        /\ Triggered(t)
        /\ ret[t].err = "close"

\* The bytes of call c in a content.
RECURSIVE CallBytes(_, _)
CallBytes(content, c) ==
    IF content = <<>> THEN 0
    ELSE (IF Head(content).call = c THEN Head(content).n ELSE 0)
             + CallBytes(Tail(content), c)

\* The tracked size when l.file.Write(p) of the call of t began.
SizeAtWrite(t) == IF obs[t].rot = <<>> THEN obs[t].chk ELSE 0

\* C12: when the underlying write fails after n < len(p) bytes, Write
\* returns n and the error, the tracked size has grown by exactly n, the n
\* bytes are in the file, and the handle stays open.
C12_ShortWriteAccounted ==
    \A t \in Threads :
        (pc[t] = "w_ret" /\ ret[t].err = "write") =>
            /\ ret[t].n = wrote[t]
            /\ ret[t].n < plen[t]
            /\ log[cid[t]].n = ret[t].n
            /\ size = SizeAtWrite(t) + ret[t].n
            /\ file # 0
            /\ fds[file].open
            /\ CallBytes(inodes[fds[file].ino], cid[t]) = ret[t].n

\* A write has failed half way into a file that already held bytes.
C12_Witness ==
    \E t \in Threads :
        /\ pc[t] = "w_ret"
        /\ ret[t].err = "write"
        /\ ret[t].n > 0
        /\ ret[t].n < plen[t]
        /\ obs[t].rot = <<>>
        /\ obs[t].chk > 0

(***************************************************************************)
(* The handle and the tracked size.                                        *)
(***************************************************************************)
\* The bytes l.file.Write has put on disk that line 71 has yet to add.
Unaccounted ==
    IF \E t \in Threads : pc[t] \in {"w_write", "w_acct"}
    THEN wrote[CHOOSE t \in Threads : pc[t] \in {"w_write", "w_acct"}]
    ELSE 0

Quiet == \A t \in Threads : pc[t] \notin Critical

\* C13: in every reachable state, failing calls included, the tracked size
\* is not negative, is the number of bytes written through the open handle
\* since it was opened (but for the bytes of a write under way that are yet
\* to be added), and is at most MaxSize, hence never above MaxSize by more
\* than the last accepted write.
C13_SizeTracksHandle ==
    /\ size >= 0
    /\ size <= MaxBytes
    /\ file # 0 => fds[file].bytes = size + Unaccounted

\* Between calls, a reopened handle has taken fewer bytes than its file
\* holds, a call has failed, and the size is that of the handle.
C13_Witness ==
    /\ Quiet
    /\ file # 0
    /\ Len(fds) >= 2
    /\ size > 0
    /\ size = fds[file].bytes
    /\ ContentLen(inodes[fds[file].ino]) > size
    /\ \E c \in 1..Len(log) : log[c].err \notin {"nil", "pending"}

OpenFiles == {k \in 1..Len(fds) : fds[k].open}

\* C14: the writer owns at most one open file, and the handle is non-nil
\* exactly when that file is open: no second file is opened while one is
\* open, no open file is left without a handle, and no handle is kept to a
\* closed file.
C14_OneOpenFile ==
    /\ Cardinality(OpenFiles) <= 1
    /\ file # 0 => (file \in 1..Len(fds) /\ OpenFiles = {file})
    /\ file = 0 => OpenFiles = {}

\* After a close that failed, a later Write has opened the file again.
C14_Witness ==
    /\ file # 0
    /\ Len(fds) >= 2
    /\ OpenFiles = {file}
    /\ \E c \in 1..Len(log) : log[c].err = "close"

\* C15: when createFile fails on a Write that found no open handle (Mkdir
\* or OpenFile fails), the Write returns 0 bytes and that error and leaves
\* no partial state: the handle stays absent, the size, the directory
\* entries, the contents and the file objects are as they were; and every
\* Write that finds no handle tries the creation anew: it leaves the check
\* of line 56 either with that error or with a fresh handle and size 0.
C15_CreateErrorClean ==
    [][\A t \in Threads :
          (pc[t] = "w_file" /\ file = 0 /\ pc'[t] # "w_file") =>
              \/ /\ pc'[t] = "w_ret"
                 /\ ret'[t].n = 0
                 /\ ret'[t].err \in {"mkdir", "open"}
                 /\ log'[cid[t]].err = ret'[t].err
                 /\ wrote'[t] = 0
                 /\ file' = 0
                 /\ UNCHANGED <<size, disk, inodes, fds>>
              \/ /\ pc'[t] = "w_rot"
                 /\ file' = Len(fds) + 1
                 /\ fds' = Append(fds, [ino |-> disk'[Filename], open |-> TRUE,
                                        closes |-> 0, bytes |-> 0])
                 /\ size' = 0]_vars

\* A Write whose creation failed has been followed by a Write that created
\* the file and wrote its payload.
C15_Witness ==
    \E t \in Threads :
        /\ pc[t] = "w_ret"
        /\ cid[t] >= 2
        /\ log[cid[t] - 1].op = "write"
        /\ log[cid[t] - 1].err \in {"mkdir", "open"}
        /\ log[cid[t] - 1].n = 0
        /\ ~obs[t].open0
        /\ Okay(t)
        /\ plen[t] > 0
        /\ size = plen[t]

\* The call of t is a Write that follows a call whose rename failed.
AfterRenameError(t) ==
    /\ cid[t] >= 2
    /\ log[cid[t] - 1].err = "rename"
    /\ log[cid[t]].op = "write"

\* C16: when the rename of a rotation fails after the close, the Write
\* returns 0 bytes and the rename error, its payload is nowhere, the old
\* file is at the path under its name (under no backup name) with the bytes
\* it had, and the handle is absent; the next Write reopens the path with
\* the size at 0 and, without rotating, appends to that file.
C16_RenameErrorKeepsFile ==
    \A t \in Threads :
        /\ ret[t].err = "rename" =>
              /\ pc[t] = "w_ret"
              /\ ret[t].n = 0
              /\ wrote[t] = 0
              /\ Holders(cid[t]) = {}
              /\ file = 0
              /\ OpenFiles = {}
              /\ obs[t].rot = <<"close">>
              /\ obs[t].oldIno # 0
              /\ disk[Filename] = obs[t].oldIno
              /\ \A nm \in BackupNames : disk[nm] # obs[t].oldIno
              /\ obs[t].chk > 0
              /\ ContentLen(inodes[obs[t].oldIno]) >= obs[t].chk
        /\ (AfterRenameError(t) /\ obs[t].chk >= 0) =>
              /\ ~obs[t].open0
              /\ obs[t].chk = 0
              /\ obs[t].rot = <<>>
              /\ pc[t] \notin {"r_close", "r_rename", "r_create"}
              /\ obs[t].oldIno # 0
              /\ disk[Filename] = obs[t].oldIno
              /\ \E k \in 1..Len(inodes[obs[t].oldIno]) :
                    inodes[obs[t].oldIno][k].call < cid[t] - 1
              /\ wrote[t] > 0 => Holders(cid[t]) = {obs[t].oldIno}
              /\ (pc[t] = "w_ret" /\ Okay(t)) =>
                    /\ size = plen[t]
                    /\ CallBytes(inodes[obs[t].oldIno], cid[t]) = plen[t]

\* After a failed rename, the next Write has appended to the un-rotated
\* file, which is now longer than MaxSize.
C16_Witness ==
    \E t \in Threads :
        /\ AfterRenameError(t)
        /\ pc[t] = "w_ret"
        /\ Okay(t)
        /\ plen[t] > 0
        /\ ContentLen(inodes[disk[Filename]]) > MaxBytes

(***************************************************************************)
(* The files on disk.                                                      *)
(***************************************************************************)
\* C17: a backup, once a rotation has made it, is retained and never
\* changed: in no step does the entry of a backup name go away or come to
\* name another file, and in no step does the content of a backup change.
C17_BackupRetained ==
    [][\A nm \in BackupNames :
          disk[nm] # 0 =>
              /\ disk'[nm] = disk[nm]
              /\ inodes'[disk[nm]] = inodes[disk[nm]]]_vars

\* No file was at the path when the writer started.
FreshStart ==
    \A i \in Inos : \A k \in 1..Len(inodes[i]) : inodes[i][k].call # 0

\* C18: starting with no file at the path and with no I/O failure, after
\* any sequence of Write and Close calls (a Write after a Close reopens the
\* path) the file at the path is never longer than MaxSize, and while the
\* handle is open the tracked size (with the bytes of a write under way) is
\* the length of that file.
C18_ActiveWithinLimit ==
    (FreshStart /\ fails = 0) =>
        /\ disk[Filename] # 0 =>
              ContentLen(inodes[disk[Filename]]) <= MaxBytes
        /\ file # 0 =>
              size + Unaccounted = ContentLen(inodes[fds[file].ino])

(***************************************************************************)
(* The rotation check and the release of the mutex.                        *)
(***************************************************************************)
\* C19: a Write rotates if and only if size + len(p) > MaxSize at its
\* check: a write that brings the size to exactly MaxSize goes to the
\* current file; and a rotation starts only at the check and never with a
\* tracked size of 0, so the file it renames has taken bytes through the
\* handle it closes.
C19_RotateIffOver ==
    [][\A t \in Threads :
          /\ (pc[t] = "w_rot" /\ pc'[t] # "w_rot") =>
                /\ pc'[t] \in {"r_close", "w_write"}
                /\ pc'[t] = "r_close" <=> plen[t] + size > MaxBytes
                /\ plen[t] + size = MaxBytes => pc'[t] = "w_write"
          /\ (pc'[t] = "r_close" /\ pc[t] # "r_close") =>
                /\ pc[t] = "w_rot"
                /\ size > 0
                /\ file # 0
                /\ fds[file].bytes > 0
          /\ (pc[t] = "r_rename" /\ pc'[t] = "r_create") =>
                /\ obs[t].chk > 0
                /\ disk'[obs'[t].bak] = obs[t].oldIno
                /\ inodes[obs[t].oldIno] # <<>>]_vars

\* A payload of exactly MaxSize bytes has been written to a fresh file
\* without a rotation.
C19_Witness ==
    \E t \in Threads :
        /\ pc[t] = "w_ret"
        /\ plen[t] = MaxBytes
        /\ obs[t].chk = 0
        /\ obs[t].rot = <<>>
        /\ Okay(t)
        /\ size = MaxBytes

Waiting == {"w_lock", "c_lock"}

\* C20: every Write and Close releases the mutex on every return path: the
\* mutex is held only by a caller between Lock and Unlock, the holder can
\* always take its next step, so no state has all callers blocked, and with
\* a fair mutex every call that has started returns.
C20_LockReleased ==
    /\ [](\A t \in Threads : pc[t] \notin Critical => mu # t)
    /\ [](mu # 0 => (pc[mu] \in Critical /\ ENABLED Step(mu)))
    /\ []((mu = 0 /\ \E t \in Threads : pc[t] \in Waiting) =>
             \E t \in Threads : ENABLED Lock(t))
    /\ \A t \in Threads : (pc[t] # "idle") ~> (pc[t] = "idle")

\* A call has returned an error and released the mutex while another
\* caller waits for it.
C20_Witness ==
    /\ mu = 0
    /\ Quiet
    /\ \E t \in Threads : pc[t] \in Waiting
    /\ log # <<>>
    /\ log[Len(log)].err \in {"toolong", "mkdir", "open", "close", "rename",
                              "write"}
====
